---- MODULE Spec2Model ----
(***************************************************************************)
(* Numina audit-rule core: the versioned Rule Store (RuleStorage, kept in  *)
(* two localStorage items) and the instruction parser (RuleParser over     *)
(* GeminiService).                                                         *)
(***************************************************************************)
EXTENDS Integers, Sequences, FiniteSets, TLC

VARIABLES
    numina_audit_rules,    \* localStorage item STORAGE_KEY: <<>> (no item) or <<JSON text>>
    numina_rule_versions,  \* localStorage item VERSION_KEY: <<>> (no item) or <<JSON text>>
    uuids,                 \* number of identifiers uuidv4() has handed out
    call,                  \* the last Rule Store call or status query: its name and arguments
    ret,                   \* what that call returned (a nullable result is a sequence of length <= 1)
    wrote,                 \* the localStorage keys that call wrote or removed
    trip,                  \* progress of an exportRules / clearAllRules / importRules sequence
    pc,                    \* RuleParser.parseInstruction: "idle", "awaiting" (generateContent pending), "done"
    model,                 \* GeminiService.model: TRUE when getGenerativeModel succeeded
    apiKey,                \* import.meta.env.VITE_GEMINI_API_KEY: <<>> (undefined) or <<string>>
    instruction,           \* the instruction of the current parse call
    result,                \* the ConversionResult of the completed parse call, <<>> before
    calls,                 \* the downstream calls the current parse call has made so far
    settled,               \* how model.generateContent ended for the current call, <<>> before
    writers,               \* per writer sharing the storage: where its saveRule stands and what it read
    saved                  \* the rules the writers' completed saveRule calls returned

storeVars == <<numina_audit_rules, numina_rule_versions, uuids, call, ret, wrote, trip>>
parseVars == <<pc, model, apiKey, instruction, result, calls, settled>>
writerVars == <<writers, saved>>
vars == <<numina_audit_rules, numina_rule_versions, uuids, call, ret, wrote, trip,
          pc, model, apiKey, instruction, result, calls, settled, writers, saved>>

(***************************************************************************)
(* Bounds of the model.                                                    *)
(***************************************************************************)
MaxSaves == 2

(***************************************************************************)
(* JSON texts.  A text is modelled by what JSON.parse makes of it: whether *)
(* it decodes at all, whether it decodes to an array, and the decoded      *)
(* elements; fmt keeps the layout (JSON.stringify(x) is compact,           *)
(* JSON.stringify(x, null, 2) is pretty-printed), which JSON.parse         *)
(* ignores.  A decoded object is a record holding exactly the keys the     *)
(* text gives it; the element null is the record NullElement.              *)
(***************************************************************************)
NullElement == [jsnull |-> TRUE]

JSON_stringify(value, fmt) == [kind |-> "array", fmt |-> fmt, elems |-> value]

JSON_parse(text) ==
    IF text.kind = "invalid" THEN [threw |-> TRUE, isArray |-> FALSE, value |-> <<>>]
    ELSE [threw |-> FALSE, isArray |-> text.kind = "array", value |-> text.elems]

\* JSON.stringify(rule.conditions): the conditions in order, each as its
\* field, operator and value in the order the keys are written.
StringifyConditions(conditions) ==
    [i \in DOMAIN conditions |->
        <<"field", conditions[i].field, "operator", conditions[i].operator,
          "value", conditions[i].value>>]

(***************************************************************************)
(* localStorage                                                            *)
(***************************************************************************)
NoItem == <<>>

getAllRules(item) ==
    IF item = NoItem THEN <<>> ELSE JSON_parse(item[1]).value

getVersionHistory(item) ==
    IF item = NoItem THEN <<>> ELSE JSON_parse(item[1]).value

setItem(text) == <<text>>

Min(S) == CHOOSE i \in S : \A j \in S : i <= j

(***************************************************************************)
(* RuleStorage.  Each operation is a function of the two stored items (and *)
(* its arguments) giving the value returned, the items afterwards and the  *)
(* keys written.                                                           *)
(***************************************************************************)
Outcome(r, rulesItem, versionsItem, keys) ==
    [ret |-> r, rules |-> rulesItem, versions |-> versionsItem, wrote |-> keys]

\* Variant of saveVersionHistory: the log is written anew with the one entry.
saveVersionHistory_overwrites(versionsItem, rule) ==
    LET entry == [rule_id |-> rule.id, rule_type |-> rule.rule_type,
                  version |-> rule.version, timestamp |-> rule.created_at,
                  created_by |-> rule.created_by, action |-> "created"]
    IN  setItem(JSON_stringify(<<entry>>, "compact"))

saveVersionHistory(versionsItem, rule) ==
    LET versionHistory == getVersionHistory(versionsItem)
        entry == [rule_id |-> rule.id, rule_type |-> rule.rule_type,
                  version |-> rule.version, timestamp |-> rule.created_at,
                  created_by |-> rule.created_by, action |-> "created"]
    IN  setItem(JSON_stringify(Append(versionHistory, entry), "compact"))

\* Variant of SimilarRules: the lookup forgets rule.is_active.
SimilarRules_anyStatus(existingRules, parsedRule) ==
    {i \in DOMAIN existingRules :
        /\ existingRules[i].rule_type = parsedRule.rule_type
        /\ StringifyConditions(existingRules[i].conditions)
              = StringifyConditions(parsedRule.conditions)}

\* existingRules.find(...): the indices of the active rules of the same
\* rule_type whose conditions serialize to the same text.
SimilarRules(existingRules, parsedRule) ==
    {i \in DOMAIN existingRules :
        /\ existingRules[i].rule_type = parsedRule.rule_type
        /\ existingRules[i].is_active
        /\ StringifyConditions(existingRules[i].conditions)
              = StringifyConditions(parsedRule.conditions)}

\* Variant of saveRule: a new version takes the action and the reason of the
\* ParsedRule.
saveRule_takesParsed(rulesItem, versionsItem, id, parsedRule, originalInstruction, createdBy, now) ==
    LET existingRules == getAllRules(rulesItem)
        similar == SimilarRules(existingRules, parsedRule)
        newRule == [id |-> id,
                    version |-> IF similar # {}
                                THEN existingRules[Min(similar)].version + 1 ELSE 1,
                    rule_type |-> parsedRule.rule_type,
                    conditions |-> parsedRule.conditions,
                    action |-> parsedRule.action,
                    reason |-> parsedRule.reason,
                    original_instruction |-> originalInstruction,
                    created_at |-> now, created_by |-> createdBy,
                    is_active |-> TRUE,
                    confidence_score |-> parsedRule.confidence_score]
        updatedRules ==
            Append([i \in DOMAIN existingRules |->
                       IF similar # {} /\ existingRules[i].id = existingRules[Min(similar)].id
                       THEN [existingRules[i] EXCEPT !.is_active = FALSE]
                       ELSE existingRules[i]],
                   newRule)
    IN  Outcome(newRule,
                setItem(JSON_stringify(updatedRules, "compact")),
                saveVersionHistory(versionsItem, newRule),
                {"numina_audit_rules", "numina_rule_versions"})

\* Variant of saveRule: the superseded version is dropped instead of being
\* kept, inactive.
saveRule_dropsSuperseded(rulesItem, versionsItem, id, parsedRule, originalInstruction, createdBy, now) ==
    LET existingRules == getAllRules(rulesItem)
        similar == SimilarRules(existingRules, parsedRule)
        newRule == IF similar # {}
                   THEN [existingRules[Min(similar)] EXCEPT
                            !.id = id,
                            !.version = existingRules[Min(similar)].version + 1,
                            !.original_instruction = originalInstruction,
                            !.created_at = now,
                            !.created_by = createdBy,
                            !.confidence_score = parsedRule.confidence_score]
                   ELSE [id |-> id, version |-> 1,
                         rule_type |-> parsedRule.rule_type,
                         conditions |-> parsedRule.conditions,
                         action |-> parsedRule.action,
                         reason |-> parsedRule.reason,
                         original_instruction |-> originalInstruction,
                         created_at |-> now, created_by |-> createdBy,
                         is_active |-> TRUE,
                         confidence_score |-> parsedRule.confidence_score]
        kept == SelectSeq(existingRules,
                          LAMBDA rule : similar = {} \/ rule.id # existingRules[Min(similar)].id)
    IN  Outcome(newRule,
                setItem(JSON_stringify(Append(kept, newRule), "compact")),
                saveVersionHistory(versionsItem, newRule),
                {"numina_audit_rules", "numina_rule_versions"})

saveRule(rulesItem, versionsItem, id, parsedRule, originalInstruction, createdBy, now) ==
    LET existingRules == getAllRules(rulesItem)
        similar == SimilarRules(existingRules, parsedRule)
    IN  IF similar # {}
        THEN LET existingRule == existingRules[Min(similar)]
                 newRule == [existingRule EXCEPT
                                !.id = id,
                                !.version = existingRule.version + 1,
                                !.original_instruction = originalInstruction,
                                !.created_at = now,
                                !.created_by = createdBy,
                                !.confidence_score = parsedRule.confidence_score]
                 deactivated == [existingRule EXCEPT !.is_active = FALSE]
                 updatedRules ==
                     Append([i \in DOMAIN existingRules |->
                                IF existingRules[i].id = existingRule.id
                                THEN deactivated ELSE existingRules[i]],
                            newRule)
             IN  Outcome(newRule,
                         setItem(JSON_stringify(updatedRules, "compact")),
                         saveVersionHistory(versionsItem, newRule),
                         {"numina_audit_rules", "numina_rule_versions"})
        ELSE LET newRule == [id |-> id,
                             version |-> 1,
                             rule_type |-> parsedRule.rule_type,
                             conditions |-> parsedRule.conditions,
                             action |-> parsedRule.action,
                             reason |-> parsedRule.reason,
                             original_instruction |-> originalInstruction,
                             created_at |-> now,
                             created_by |-> createdBy,
                             is_active |-> TRUE,
                             confidence_score |-> parsedRule.confidence_score]
                 updatedRules == Append(existingRules, newRule)
             IN  Outcome(newRule,
                         setItem(JSON_stringify(updatedRules, "compact")),
                         saveVersionHistory(versionsItem, newRule),
                         {"numina_audit_rules", "numina_rule_versions"})

getActiveRules(rulesItem) ==
    SelectSeq(getAllRules(rulesItem), LAMBDA rule : rule.is_active)

\* Variant of deactivateRule: every rule of the rule_type is deactivated.
deactivateRule_wholeType(rulesItem, versionsItem, id) ==
    LET rules == getAllRules(rulesItem)
        hits == {i \in DOMAIN rules : rules[i].id = id}
    IN  IF hits = {}
        THEN Outcome(FALSE, rulesItem, versionsItem, {})
        ELSE LET ruleIndex == Min(hits)
                 changed == [i \in DOMAIN rules |->
                               IF rules[i].rule_type = rules[ruleIndex].rule_type
                               THEN [rules[i] EXCEPT !.is_active = FALSE]
                               ELSE rules[i]]
             IN  Outcome(TRUE, setItem(JSON_stringify(changed, "compact")),
                         versionsItem, {"numina_audit_rules"})

deactivateRule(rulesItem, versionsItem, id) ==
    LET rules == getAllRules(rulesItem)
        hits == {i \in DOMAIN rules : rules[i].id = id}
    IN  IF hits = {}
        THEN Outcome(FALSE, rulesItem, versionsItem, {})
        ELSE LET ruleIndex == Min(hits)
                 changed == [rules EXCEPT ![ruleIndex].is_active = FALSE]
             IN  Outcome(TRUE, setItem(JSON_stringify(changed, "compact")),
                         versionsItem, {"numina_audit_rules"})

\* Variant of rollbackToVersion: the restored rule is numbered as the newest.
rollbackToVersion_renumbers(rulesItem, versionsItem, ruleType, version) ==
    LET rules == getAllRules(rulesItem)
        hits == {i \in DOMAIN rules :
                    rules[i].rule_type = ruleType /\ rules[i].version = version}
    IN  IF hits = {}
        THEN Outcome(<<>>, rulesItem, versionsItem, {})
        ELSE LET target == Min(hits)
                 changed == [i \in DOMAIN rules |->
                                IF i = target
                                THEN [rules[i] EXCEPT !.is_active = TRUE,
                                                      !.version = Len(rules) + 1]
                                ELSE IF rules[i].rule_type = ruleType /\ rules[i].is_active
                                     THEN [rules[i] EXCEPT !.is_active = FALSE]
                                     ELSE rules[i]]
             IN  Outcome(<<changed[target]>>,
                         setItem(JSON_stringify(changed, "compact")),
                         versionsItem, {"numina_audit_rules"})

\* Variant of rollbackToVersion: the target is activated and the rules that
\* were active stay active.
rollbackToVersion_keepsActive(rulesItem, versionsItem, ruleType, version) ==
    LET rules == getAllRules(rulesItem)
        hits == {i \in DOMAIN rules :
                    rules[i].rule_type = ruleType /\ rules[i].version = version}
    IN  IF hits = {}
        THEN Outcome(<<>>, rulesItem, versionsItem, {})
        ELSE LET target == Min(hits)
                 changed == [rules EXCEPT ![target].is_active = TRUE]
             IN  Outcome(<<changed[target]>>,
                         setItem(JSON_stringify(changed, "compact")),
                         versionsItem, {"numina_audit_rules"})

\* Variant of rollbackToVersion: the active rules are deactivated before the
\* target is looked up.
rollbackToVersion_deactivatesFirst(rulesItem, versionsItem, ruleType, version) ==
    LET rules == getAllRules(rulesItem)
        cleared == [i \in DOMAIN rules |->
                      IF rules[i].rule_type = ruleType
                      THEN [rules[i] EXCEPT !.is_active = FALSE] ELSE rules[i]]
        hits == {i \in DOMAIN rules :
                    rules[i].rule_type = ruleType /\ rules[i].version = version}
    IN  IF hits = {}
        THEN Outcome(<<>>, setItem(JSON_stringify(cleared, "compact")),
                     versionsItem, {"numina_audit_rules"})
        ELSE LET target == Min(hits)
                 changed == [cleared EXCEPT ![target].is_active = TRUE]
             IN  Outcome(<<changed[target]>>,
                         setItem(JSON_stringify(changed, "compact")),
                         versionsItem, {"numina_audit_rules"})

rollbackToVersion(rulesItem, versionsItem, ruleType, version) ==
    LET rules == getAllRules(rulesItem)
        hits == {i \in DOMAIN rules :
                    rules[i].rule_type = ruleType /\ rules[i].version = version}
    IN  IF hits = {}
        THEN Outcome(<<>>, rulesItem, versionsItem, {})
        ELSE LET target == Min(hits)
                 changed == [i \in DOMAIN rules |->
                                IF i = target
                                THEN [rules[i] EXCEPT !.is_active = TRUE]
                                ELSE IF rules[i].rule_type = ruleType /\ rules[i].is_active
                                     THEN [rules[i] EXCEPT !.is_active = FALSE]
                                     ELSE rules[i]]
             IN  Outcome(<<changed[target]>>,
                         setItem(JSON_stringify(changed, "compact")),
                         versionsItem, {"numina_audit_rules"})

\* Variant of deleteRule: the newest remaining rule of the deleted rule's
\* rule_type is made active.
deleteRule_promotes(rulesItem, versionsItem, id) ==
    LET rules == getAllRules(rulesItem)
        filteredRules == SelectSeq(rules, LAMBDA rule : rule.id # id)
    IN  IF Len(filteredRules) = Len(rules)
        THEN Outcome(FALSE, rulesItem, versionsItem, {})
        ELSE LET gone == rules[Min({i \in DOMAIN rules : rules[i].id = id})]
                 heirs == {i \in DOMAIN filteredRules :
                              filteredRules[i].rule_type = gone.rule_type}
                 promoted == [i \in DOMAIN filteredRules |->
                                 IF heirs # {} /\ i = CHOOSE h \in heirs : \A g \in heirs : g <= h
                                 THEN [filteredRules[i] EXCEPT !.is_active = TRUE]
                                 ELSE filteredRules[i]]
             IN  Outcome(TRUE, setItem(JSON_stringify(promoted, "compact")),
                         versionsItem, {"numina_audit_rules"})

deleteRule(rulesItem, versionsItem, id) ==
    LET rules == getAllRules(rulesItem)
        filteredRules == SelectSeq(rules, LAMBDA rule : rule.id # id)
    IN  IF Len(filteredRules) = Len(rules)
        THEN Outcome(FALSE, rulesItem, versionsItem, {})
        ELSE Outcome(TRUE, setItem(JSON_stringify(filteredRules, "compact")),
                     versionsItem, {"numina_audit_rules"})

exportRules(rulesItem) == JSON_stringify(getAllRules(rulesItem), "pretty")

\* rule.id && rule.rule_type && rule.conditions && rule.action &&
\* rule.version !== undefined: a missing key reads as undefined, an empty
\* string is falsy, an array (also the empty one) is truthy.
Truthy(rule, key) == key \in DOMAIN rule /\ rule[key] # ""

\* Variant of ElementIsValid: the check of rule.action is left out.
ElementIsValid_noAction(rule) ==
    /\ Truthy(rule, "id")
    /\ Truthy(rule, "rule_type")
    /\ "conditions" \in DOMAIN rule
    /\ "version" \in DOMAIN rule

ElementIsValid(rule) ==
    /\ Truthy(rule, "id")
    /\ Truthy(rule, "rule_type")
    /\ "conditions" \in DOMAIN rule
    /\ Truthy(rule, "action")
    /\ "version" \in DOMAIN rule

importRules(rulesItem, versionsItem, rulesJson) ==
    LET parsed == JSON_parse(rulesJson)
        rules == parsed.value
        \* reading rule.id of a null element throws; the catch returns false
        threw == parsed.threw
                 \/ (parsed.isArray /\ \E i \in DOMAIN rules :
                        /\ rules[i] = NullElement
                        /\ \A j \in 1..(i - 1) : ElementIsValid(rules[j]))
        isValid == \A i \in DOMAIN rules : ElementIsValid(rules[i])
    IN  IF threw \/ ~parsed.isArray \/ ~isValid
        THEN Outcome(FALSE, rulesItem, versionsItem, {})
        ELSE Outcome(TRUE, setItem(rulesJson), versionsItem, {"numina_audit_rules"})

clearAllRules(rulesItem, versionsItem) ==
    Outcome(TRUE, NoItem, NoItem, {"numina_audit_rules", "numina_rule_versions"})

Count(seq, Test(_)) == Cardinality({i \in DOMAIN seq : Test(seq[i])})

\* Variant of getRuleStats: the breakdowns count every rule, not the active ones.
getRuleStats_allRules(rulesItem) ==
    LET rules == getAllRules(rulesItem)
        activeRules == SelectSeq(rules, LAMBDA rule : rule.is_active)
        types == {rules[i].rule_type : i \in DOMAIN rules}
        actions == {rules[i].action : i \in DOMAIN rules}
    IN  [total |-> Len(rules),
         active |-> Len(activeRules),
         byType |-> [t \in types |-> Count(rules, LAMBDA rule : rule.rule_type = t)],
         byAction |-> [a \in actions |-> Count(rules, LAMBDA rule : rule.action = a)]]

getRuleStats(rulesItem) ==
    LET rules == getAllRules(rulesItem)
        activeRules == SelectSeq(rules, LAMBDA rule : rule.is_active)
        types == {activeRules[i].rule_type : i \in DOMAIN activeRules}
        actions == {activeRules[i].action : i \in DOMAIN activeRules}
    IN  [total |-> Len(rules),
         active |-> Len(activeRules),
         byType |-> [t \in types |-> Count(activeRules, LAMBDA rule : rule.rule_type = t)],
         byAction |-> [a \in actions |-> Count(activeRules, LAMBDA rule : rule.action = a)]]

\* uuidv4(): the n-th identifier handed out; no two calls return the same one.
uuidv4(n) == ToString(n)

(***************************************************************************)
(* Inputs.  The ParsedRules are results the parser can return: the first   *)
(* is the heuristic reading of "Flag any expense amount above $1,000", the *)
(* second an AI reading with the same rule_type and conditions, the third  *)
(* an AI reading that validateParsedRule accepts (it asks only that        *)
(* rule_type, action and reason be strings), the fourth the heuristic      *)
(* reading of an instruction that names a time and no number.              *)
(***************************************************************************)
AmountOver1000 == [field |-> "amount", operator |-> "gt", value |-> 1000]

ParsedRuleInputs ==
    { [rule_type |-> "expense_amount_threshold", conditions |-> <<AmountOver1000>>,
       action |-> "flag", reason |-> "Flag based on expense amount_threshold",
       confidence_score |-> 6],
      [rule_type |-> "expense_amount_threshold", conditions |-> <<AmountOver1000>>,
       action |-> "review", reason |-> "Expenses above 1000 need a review",
       confidence_score |-> 9],
      [rule_type |-> "expense_amount_threshold", conditions |-> <<>>,
       action |-> "", reason |-> "Expenses without a receipt",
       confidence_score |-> 5],
      [rule_type |-> "time_based", conditions |-> <<>>,
       action |-> "flag", reason |-> "Flag based on time based",
       confidence_score |-> 6] }

\* originalInstruction, createdBy and the clock reading of new Date().
Provenances ==
    { [originalInstruction |-> "Flag any expense amount above $1,000",
       createdBy |-> "system", now |-> "2025-01-01T00:00:00.000Z"],
      [originalInstruction |-> "review expenses after 10 pm",
       createdBy |-> "auditor", now |-> "2025-01-02T00:00:00.000Z"] }

\* The saves of the model: the heuristic results arrive from "system", the
\* AI results from "auditor".
SaveInputs ==
    {<<parsedRule, prov>> \in ParsedRuleInputs \X Provenances :
        (parsedRule.confidence_score = 6) = (prov.createdBy = "system")}

RuleTypes == {p.rule_type : p \in ParsedRuleInputs}

\* Rules written by another session of the application, as an import finds
\* them in a file: two active versions of one lineage.
ForeignRule(id, version) ==
    [id |-> id, version |-> version, rule_type |-> "expense_amount_threshold",
     conditions |-> <<AmountOver1000>>, action |-> "flag",
     reason |-> "Flag based on expense amount_threshold",
     original_instruction |-> "Flag any expense amount above $1,000",
     created_at |-> "2024-12-31T00:00:00.000Z", created_by |-> "system",
     is_active |-> TRUE, confidence_score |-> 6]

Without(rule, key) == [k \in DOMAIN rule \ {key} |-> rule[k]]

ValidatedKeys == {"id", "rule_type", "conditions", "action", "version"}

\* One element of a payload that is not a full rule.
BrokenElements ==
    {Without(ForeignRule("x2", 2), key) : key \in ValidatedKeys}
    \cup {[ForeignRule("x2", 2) EXCEPT !.id = ""],
          [ForeignRule("x2", 2) EXCEPT !.rule_type = ""],
          [ForeignRule("x2", 2) EXCEPT !.action = ""],
          NullElement}

ArrayText(elems) == [kind |-> "array", fmt |-> "compact", elems |-> elems]

ValidPayloads ==
    { ArrayText(<<>>),
      ArrayText(<<ForeignRule("x1", 1), ForeignRule("x2", 2)>>),
      ArrayText(<<ForeignRule("x1", 1), [ForeignRule("x2", 2) EXCEPT !.conditions = <<>>]>>) }

InvalidPayloads ==
    { [kind |-> "invalid", fmt |-> "compact", elems |-> <<>>],
      [kind |-> "object", fmt |-> "compact", elems |-> <<>>] }
    \cup {ArrayText(<<ForeignRule("x1", 1), e>>) : e \in BrokenElements}
    \cup {ArrayText(<<e, ForeignRule("x1", 1)>>) : e \in BrokenElements}

Payloads == ValidPayloads \cup InvalidPayloads

\* The identifiers a caller passes: those of the stored rules and one that
\* was never issued.
Ids(rulesItem) ==
    {getAllRules(rulesItem)[i].id : i \in DOMAIN getAllRules(rulesItem)} \cup {"unknown"}

Versions == 1..MaxSaves

NoTrip == [stage |-> "none", text |-> <<>>, all |-> <<>>]

\* The processes that share the storage, and a process not inside saveRule.
Writers == {"w1", "w2"}

Idle == [pc |-> "idle"]

(***************************************************************************)
(* The Rule Store's operations as actions.                                 *)
(***************************************************************************)
Apply(out) ==
    /\ numina_audit_rules' = out.rules
    /\ numina_rule_versions' = out.versions
    /\ ret' = out.ret
    /\ wrote' = out.wrote

Save(parsedRule, prov) ==
    /\ uuids < MaxSaves
    /\ uuids' = uuids + 1
    /\ call' = [name |-> "save", parsedRule |-> parsedRule, prov |-> prov]
    /\ Apply(saveRule(numina_audit_rules, numina_rule_versions, uuidv4(uuids + 1),
                      parsedRule, prov.originalInstruction, prov.createdBy, prov.now))
    /\ trip' = NoTrip
    /\ UNCHANGED <<parseVars, writerVars>>

Deactivate(id) ==
    /\ call' = [name |-> "deactivate", id |-> id]
    /\ Apply(deactivateRule(numina_audit_rules, numina_rule_versions, id))
    /\ trip' = NoTrip
    /\ UNCHANGED <<uuids, parseVars, writerVars>>

Rollback(ruleType, version) ==
    /\ call' = [name |-> "rollback", ruleType |-> ruleType, version |-> version]
    /\ Apply(rollbackToVersion(numina_audit_rules, numina_rule_versions, ruleType, version))
    /\ trip' = NoTrip
    /\ UNCHANGED <<uuids, parseVars, writerVars>>

Delete(id) ==
    /\ call' = [name |-> "delete", id |-> id]
    /\ Apply(deleteRule(numina_audit_rules, numina_rule_versions, id))
    /\ trip' = NoTrip
    /\ UNCHANGED <<uuids, parseVars, writerVars>>

Export ==
    /\ call' = [name |-> "export"]
    /\ ret' = exportRules(numina_audit_rules)
    /\ wrote' = {}
    /\ trip' = [stage |-> "exported", text |-> <<exportRules(numina_audit_rules)>>,
                all |-> getAllRules(numina_audit_rules)]
    /\ UNCHANGED <<numina_audit_rules, numina_rule_versions, uuids, parseVars, writerVars>>

Clear ==
    /\ call' = [name |-> "clear"]
    /\ Apply(clearAllRules(numina_audit_rules, numina_rule_versions))
    /\ trip' = IF trip.stage = "exported" THEN [trip EXCEPT !.stage = "cleared"] ELSE NoTrip
    /\ UNCHANGED <<uuids, parseVars, writerVars>>

Import(rulesJson) ==
    /\ call' = [name |-> "import", rulesJson |-> rulesJson]
    /\ Apply(importRules(numina_audit_rules, numina_rule_versions, rulesJson))
    /\ trip' = NoTrip
    /\ UNCHANGED <<uuids, parseVars, writerVars>>

\* importRules handed the text the last exportRules returned.
ImportExported ==
    /\ trip.stage \in {"exported", "cleared"}
    /\ call' = [name |-> "import", rulesJson |-> trip.text[1]]
    /\ Apply(importRules(numina_audit_rules, numina_rule_versions, trip.text[1]))
    /\ trip' = IF trip.stage = "cleared" THEN [trip EXCEPT !.stage = "imported"] ELSE NoTrip
    /\ UNCHANGED <<uuids, parseVars, writerVars>>

Stats ==
    /\ call' = [name |-> "stats"]
    /\ ret' = getRuleStats(numina_audit_rules)
    /\ wrote' = {}
    /\ trip' = NoTrip
    /\ UNCHANGED <<numina_audit_rules, numina_rule_versions, uuids, parseVars, writerVars>>

Init ==
    /\ numina_audit_rules = NoItem
    /\ numina_rule_versions = NoItem
    /\ uuids = 0
    /\ call = [name |-> "none"]
    /\ ret = FALSE
    /\ wrote = {}
    /\ trip = NoTrip
    /\ pc = "idle"
    /\ model = FALSE
    /\ apiKey = <<>>
    /\ instruction = <<>>
    /\ result = <<>>
    /\ calls = <<>>
    /\ settled = <<>>
    /\ writers = [w \in Writers |-> Idle]
    /\ saved = {}

\* The file a session imports: two active versions of one lineage.
ForeignPayload == ArrayText(<<ForeignRule("x1", 1), ForeignRule("x2", 2)>>)

\* save, deactivate and rollback: the operations that version a lineage
NextVersioning ==
    \/ \E input \in SaveInputs : Save(input[1], input[2])
    \/ \E id \in Ids(numina_audit_rules) : Deactivate(id)
    \/ \E ruleType \in RuleTypes, version \in Versions : Rollback(ruleType, version)
    \/ Stats

\* ... and delete
NextEdit ==
    \/ NextVersioning
    \/ \E id \in Ids(numina_audit_rules) : Delete(id)

\* versioning a store that may hold an imported file
Next ==
    \/ NextVersioning
    \/ Import(ForeignPayload)

\* saves, imports of every payload, and clear
NextImport ==
    \/ \E input \in SaveInputs : Save(input[1], input[2])
    \/ \E rulesJson \in Payloads : Import(rulesJson)
    \/ Clear

\* edits, and the export / clear / import sequence
NextTrip ==
    \/ NextEdit
    \/ Export
    \/ Clear
    \/ ImportExported

(***************************************************************************)
(* saveRule run by processes that share the storage.  Another process can  *)
(* act between the getItem of getAllRules and the setItem of the updated   *)
(* array: a saveRule is the step that reads and the step that writes (the  *)
(* rules, then the log).                                                   *)
(***************************************************************************)
WriterReads(w, parsedRule, prov) ==
    /\ writers[w] = Idle
    /\ uuids < MaxSaves
    /\ uuids' = uuids + 1
    /\ writers' = [writers EXCEPT ![w] =
                      [pc |-> "read", existing |-> numina_audit_rules,
                       id |-> uuidv4(uuids + 1), parsedRule |-> parsedRule, prov |-> prov]]
    /\ UNCHANGED <<numina_audit_rules, numina_rule_versions, call, ret, wrote, trip,
                   saved, parseVars>>

WriterWrites(w) ==
    /\ writers[w] # Idle
    /\ LET mine == writers[w]
           out == saveRule(mine.existing, numina_rule_versions, mine.id, mine.parsedRule,
                           mine.prov.originalInstruction, mine.prov.createdBy, mine.prov.now)
       IN  /\ Apply(out)
           /\ saved' = saved \cup {[writer |-> w, rule |-> out.ret]}
           /\ call' = [name |-> "save", parsedRule |-> mine.parsedRule, prov |-> mine.prov]
    /\ writers' = [writers EXCEPT ![w] = Idle]
    /\ trip' = NoTrip
    /\ UNCHANGED <<uuids, parseVars>>

NextWriters ==
    \/ \E w \in Writers, input \in SaveInputs : WriterReads(w, input[1], input[2])
    \/ \E w \in Writers : WriterWrites(w)

SpecWriters == Init /\ [][NextWriters]_vars

Spec == Init /\ [][Next]_vars

SpecVersioning == Init /\ [][NextVersioning]_vars

SpecEdit == Init /\ [][NextEdit]_vars

SpecImport == Init /\ [][NextImport]_vars

SpecTrip == Init /\ [][NextTrip]_vars

(***************************************************************************)
(* Strings, as sequences of one-character strings.                         *)
(***************************************************************************)
Chars(str) == [i \in 1..Len(str) |-> SubSeq(str, i, i)]

\* String.prototype.trim: white space is stripped from both ends.
IsWhiteSpace(c) == c \in {" ", "\t", "\n", "\r"}

trim(s) ==
    LET inked == {i \in DOMAIN s : ~IsWhiteSpace(s[i])}
    IN  IF inked = {} THEN <<>>
        ELSE SubSeq(s, Min(inked), CHOOSE i \in inked : \A j \in inked : j <= i)

UpperCase == Chars("ABCDEFGHIJKLMNOPQRSTUVWXYZ")
LowerCase == Chars("abcdefghijklmnopqrstuvwxyz")

toLowerCase(s) ==
    [i \in DOMAIN s |->
        IF \E k \in DOMAIN UpperCase : UpperCase[k] = s[i]
        THEN LowerCase[CHOOSE k \in DOMAIN UpperCase : UpperCase[k] = s[i]]
        ELSE s[i]]

\* the word occurs in s at position i
At(s, word, i) ==
    /\ i >= 1
    /\ i + Len(word) - 1 <= Len(s)
    /\ \A k \in 1..Len(word) : s[i + k - 1] = SubSeq(word, k, k)

\* String.prototype.includes
includes(s, word) == \E i \in 1..Len(s) : At(s, word, i)

\* /first.*second/: first, then second, with no line terminator between
\* them (the dot matches none).
ThenLater(s, first, second) ==
    \E i \in 1..Len(s) :
        /\ At(s, first, i)
        /\ \E j \in (i + Len(first))..Len(s) :
              /\ At(s, second, j)
              /\ \A k \in (i + Len(first))..(j - 1) : s[k] \notin {"\n", "\r"}

(***************************************************************************)
(* GeminiService: the heuristic (fallback) parsing.                        *)
(***************************************************************************)
actionKeywords ==
    << [action |-> "flag", keywords |-> {"flag", "mark", "highlight", "identify"}],
       [action |-> "review", keywords |-> {"review", "check", "examine", "investigate"}],
       [action |-> "reject", keywords |-> {"reject", "deny", "block", "prevent"}],
       [action |-> "approve", keywords |-> {"approve", "accept", "allow", "permit"}] >>

extractAction(s) ==
    LET found == {k \in DOMAIN actionKeywords :
                     \E keyword \in actionKeywords[k].keywords : includes(s, keyword)}
    IN  IF found = {} THEN "flag" ELSE actionKeywords[Min(found)].action

\* Variant of determineRuleType: the time pattern is tried before the
\* vendor pattern.
determineRuleType_timeBeforeVendor(s) ==
    IF \/ ThenLater(s, "expense", "amount")
       \/ ThenLater(s, "amount", "above")
       \/ ThenLater(s, "cost", "over")
    THEN <<"expense_amount_threshold">>
    ELSE IF \E word \in {"time", "after", "before", "am", "pm"} : includes(s, word)
    THEN <<"time_based">>
    ELSE IF \/ ThenLater(s, "vendor", "frequency")
            \/ ThenLater(s, "appears", "times")
            \/ ThenLater(s, "vendor", "day")
    THEN <<"vendor_frequency">>
    ELSE IF \/ ThenLater(s, "category", "amount")
            \/ ThenLater(s, "tagged", "over")
            \/ ThenLater(s, "categorized", "above")
    THEN <<"category_amount_threshold">>
    ELSE IF \/ includes(s, "duplicate")
            \/ ThenLater(s, "same", "transaction")
            \/ includes(s, "identical")
    THEN <<"duplicate_detection">>
    ELSE <<>>

\* null is <<>>, a rule type t is <<t>>
determineRuleType(s) ==
    IF \/ ThenLater(s, "expense", "amount")
       \/ ThenLater(s, "amount", "above")
       \/ ThenLater(s, "cost", "over")
    THEN <<"expense_amount_threshold">>
    ELSE IF \/ ThenLater(s, "vendor", "frequency")
            \/ ThenLater(s, "appears", "times")
            \/ ThenLater(s, "vendor", "day")
    THEN <<"vendor_frequency">>
    ELSE IF \/ ThenLater(s, "category", "amount")
            \/ ThenLater(s, "tagged", "over")
            \/ ThenLater(s, "categorized", "above")
    THEN <<"category_amount_threshold">>
    ELSE IF \/ includes(s, "duplicate")
            \/ ThenLater(s, "same", "transaction")
            \/ includes(s, "identical")
    THEN <<"duplicate_detection">>
    ELSE IF \/ includes(s, "time")
            \/ includes(s, "after")
            \/ includes(s, "before")
            \/ includes(s, "am")
            \/ includes(s, "pm")
    THEN <<"time_based">>
    ELSE <<>>

Digits == Chars("0123456789")
IsDigit(c) == \E k \in DOMAIN Digits : Digits[k] = c
DigitValue(c) == (CHOOSE k \in DOMAIN Digits : Digits[k] = c) - 1

\* the number a run of digits and commas denotes once the commas are removed
RECURSIVE Decimal(_)
Decimal(s) ==
    IF s = <<>> THEN 0
    ELSE IF s[Len(s)] = "," THEN Decimal(SubSeq(s, 1, Len(s) - 1))
    ELSE 10 * Decimal(SubSeq(s, 1, Len(s) - 1)) + DigitValue(s[Len(s)])

\* \d+ from position i: the last position of the run of digits
RECURSIVE DigitsEnd(_, _)
DigitsEnd(s, i) ==
    IF i + 1 <= Len(s) /\ IsDigit(s[i + 1]) THEN DigitsEnd(s, i + 1) ELSE i

\* (?:,\d{3})* after position i: the last position matched
RECURSIVE GroupsEnd(_, _)
GroupsEnd(s, i) ==
    IF /\ i + 4 <= Len(s)
       /\ s[i + 1] = ","
       /\ \A k \in (i + 2)..(i + 4) : IsDigit(s[k])
    THEN GroupsEnd(s, i + 4) ELSE i

\* A number with two decimals: whole + cents / 100.
Number(whole, cents) == [whole |-> whole, cents |-> cents]

\* instruction.match(/\$?(\d+(?:,\d{3})*(?:\.\d{2})?)/) and parseFloat of
\* the group without its commas
extractBasicConditions(s) ==
    LET digits == {i \in DOMAIN s : IsDigit(s[i])}
    IN  IF digits = {} THEN <<>>
        ELSE LET start == Min(digits)
                 wholeEnd == GroupsEnd(s, DigitsEnd(s, start))
                 hasCents == /\ wholeEnd + 3 <= Len(s)
                             /\ s[wholeEnd + 1] = "."
                             /\ IsDigit(s[wholeEnd + 2])
                             /\ IsDigit(s[wholeEnd + 3])
                 whole == Decimal(SubSeq(s, start, wholeEnd))
                 cents == IF hasCents
                          THEN 10 * DigitValue(s[wholeEnd + 2]) + DigitValue(s[wholeEnd + 3])
                          ELSE 0
             IN  << [field |-> "amount", operator |-> "gt",
                     value |-> Number(whole, cents)] >>

\* action.charAt(0).toUpperCase() + action.slice(1)
Capitalized(action) ==
    LET cs == Chars(action)
        first == IF \E k \in DOMAIN LowerCase : LowerCase[k] = cs[1]
                 THEN UpperCase[CHOOSE k \in DOMAIN LowerCase : LowerCase[k] = cs[1]]
                 ELSE cs[1]
    IN  first \o SubSeq(action, 2, Len(action))

\* ruleType.replace('_', ' '): a string pattern replaces the first occurrence only
ReplaceFirstUnderscore(str) ==
    LET cs == Chars(str)
        at == {i \in DOMAIN cs : cs[i] = "_"}
    IN  IF at = {} THEN str
        ELSE SubSeq(str, 1, Min(at) - 1) \o " " \o SubSeq(str, Min(at) + 1, Len(str))

Success(rule) == [success |-> TRUE, rule |-> rule]

Failure(error, suggestions) ==
    [success |-> FALSE, error |-> error, suggestions |-> suggestions]

\* Variant of fallbackParsing: the failure carries no suggestions.
fallbackParsing_bareError(instr) ==
    LET normalizedInstruction == trim(toLowerCase(Chars(instr)))
        action == extractAction(normalizedInstruction)
        ruleType == determineRuleType(normalizedInstruction)
        conditions == extractBasicConditions(normalizedInstruction)
    IN  IF ruleType = <<>>
        THEN [success |-> FALSE,
              error |-> "Could not determine rule type. Please check your Gemini API configuration."]
        ELSE Success([rule_type |-> ruleType[1],
                      conditions |-> conditions,
                      action |-> action,
                      reason |-> Capitalized(action) \o " based on "
                                    \o ReplaceFirstUnderscore(ruleType[1]),
                      confidence_score |-> Number(0, 60)])

fallbackParsing(instr) ==
    LET normalizedInstruction == trim(toLowerCase(Chars(instr)))
        action == extractAction(normalizedInstruction)
        ruleType == determineRuleType(normalizedInstruction)
        conditions == extractBasicConditions(normalizedInstruction)
    IN  IF ruleType = <<>>
        THEN Failure("Could not determine rule type. Please check your Gemini API configuration.",
                     << "Ensure VITE_GEMINI_API_KEY is set in your environment",
                        "Try using more specific keywords like \"expense\", \"vendor\", \"category\"",
                        "Include threshold amounts with $ symbol" >>)
        ELSE Success([rule_type |-> ruleType[1],
                      conditions |-> conditions,
                      action |-> action,
                      reason |-> Capitalized(action) \o " based on "
                                    \o ReplaceFirstUnderscore(ruleType[1]),
                      confidence_score |-> Number(0, 60)])

(***************************************************************************)
(* GeminiService: the response of the generation capability.               *)
(*                                                                         *)
(* A JavaScript value read from JSON carries its type: [t, v].  An object  *)
(* is a record holding exactly its keys.  A statement either returns a     *)
(* value or throws an Error with a message.                                *)
(***************************************************************************)
Returned(value) == [threw |-> FALSE, value |-> value]
Thrown(message) == [threw |-> TRUE, message |-> message]

String(v) == [t |-> "string", v |-> v]
Num(whole, cents) == [t |-> "number", v |-> Number(whole, cents)]
Array(elements) == [t |-> "array", v |-> elements]
Object(fields) == [t |-> "object", v |-> fields]
Null == [t |-> "null", v |-> NullElement]
Boolean(v) == [t |-> "boolean", v |-> v]

Hundredths(number) == 100 * number.whole + number.cents

\* A response text is a sequence of pieces: prose without braces, a lone
\* "{", a lone "}", a braced remark such as "{see above}", or the JSON text
\* of an object.
Prose == [kind |-> "prose"]
OpenBrace == [kind |-> "open"]
CloseBrace == [kind |-> "close"]
Remark == [kind |-> "remark"]
JsonText(fields) == [kind |-> "json", object |-> fields]

Max(S) == CHOOSE i \in S : \A j \in S : j <= i

\* response.match(/\{[\s\S]*\}/): from the first "{" to the last "}" after it
match(response) ==
    LET opens == {i \in DOMAIN response : response[i].kind \in {"open", "remark", "json"}}
        closes == {i \in DOMAIN response : response[i].kind \in {"close", "remark", "json"}}
    IN  IF opens = {} THEN <<>>
        ELSE IF {j \in closes : j >= Min(opens)} = {} THEN <<>>
        ELSE <<SubSeq(response, Min(opens), Max(closes))>>

\* JSON.parse of a matched span: it is JSON only if it is one object's text
JSON_parse_span(span) ==
    IF Len(span) = 1 /\ span[1].kind = "json"
    THEN Returned(span[1].object)
    ELSE Thrown("Unexpected token in JSON")

typeof(rule, key) == IF key \in DOMAIN rule THEN rule[key].t ELSE "undefined"

\* condition.field && condition.operator && condition.value !== undefined,
\* for a condition that has properties
IsTruthy(value) ==
    CASE value.t = "string" -> value.v # ""
      [] value.t = "number" -> Hundredths(value.v) # 0
      [] value.t = "boolean" -> value.v
      [] value.t = "null" -> FALSE
      [] OTHER -> TRUE

ConditionPasses(condition) ==
    /\ condition.t = "object"
    /\ "field" \in DOMAIN condition.v /\ IsTruthy(condition.v.field)
    /\ "operator" \in DOMAIN condition.v /\ IsTruthy(condition.v.operator)
    /\ "value" \in DOMAIN condition.v

\* Variant of validateParsedRule: the range of confidence_score and the
\* value of a condition are not looked at.
validateParsedRule_loose(rule) ==
    IF ~ /\ typeof(rule, "rule_type") = "string"
         /\ typeof(rule, "conditions") = "array"
         /\ typeof(rule, "action") = "string"
         /\ typeof(rule, "reason") = "string"
         /\ typeof(rule, "confidence_score") = "number"
    THEN Returned(FALSE)
    ELSE LET conditions == rule.conditions.v
             failing == {i \in DOMAIN conditions :
                            ~ /\ conditions[i].t = "object"
                              /\ "field" \in DOMAIN conditions[i].v
                              /\ "operator" \in DOMAIN conditions[i].v}
         IN  IF failing = {} THEN Returned(TRUE)
             ELSE IF conditions[Min(failing)].t = "null"
             THEN Thrown("Cannot read properties of null (reading 'field')")
             ELSE Returned(FALSE)

validateParsedRule(rule) ==
    IF ~ /\ typeof(rule, "rule_type") = "string"
         /\ typeof(rule, "conditions") = "array"
         /\ typeof(rule, "action") = "string"
         /\ typeof(rule, "reason") = "string"
         /\ typeof(rule, "confidence_score") = "number"
         /\ Hundredths(rule.confidence_score.v) >= 0
         /\ Hundredths(rule.confidence_score.v) <= 100
    THEN Returned(FALSE)
    ELSE LET conditions == rule.conditions.v
             failing == {i \in DOMAIN conditions : ~ConditionPasses(conditions[i])}
         IN  IF failing = {} THEN Returned(TRUE)
             ELSE IF conditions[Min(failing)].t = "null"
             THEN Thrown("Cannot read properties of null (reading 'field')")
             ELSE Returned(FALSE)

AIFailure(message) ==
    Failure("Failed to parse AI response: " \o message,
            << "Try rephrasing your instruction more clearly",
               "Include specific amounts, categories, or conditions",
               "Use clear action words like \"flag\", \"review\", \"reject\", or \"approve\"" >>)

parseGeminiResponse(response) ==
    LET jsonMatch == match(response)
    IN  IF jsonMatch = <<>> THEN AIFailure("No JSON found in response")
        ELSE LET parsedRule == JSON_parse_span(jsonMatch[1])
             IN  IF parsedRule.threw THEN AIFailure(parsedRule.message)
                 ELSE LET valid == validateParsedRule(parsedRule.value)
                      IN  IF valid.threw THEN AIFailure(valid.message)
                          ELSE IF ~valid.value
                          THEN AIFailure("Invalid rule structure from Gemini")
                          ELSE Success(parsedRule.value)

(***************************************************************************)
(* Inputs of the parser.                                                   *)
(***************************************************************************)
Instructions ==
    { "", "   ", " \t\n",
      "Flag any expense above $1,000",
      "Review every expense with an amount over $1,234.50",
      "Block a vendor that appears 3 times in a day",
      "Approve category travel amount 500",
      "Highlight the same transaction",
      "check after 10 pm",
      "If a vendor appears more than twice in one day, flag for review",
      "Review any expense after 10 PM",
      "Reject identical invoices",
      "Examine any amount above 99.5",
      "Investigate cost centre totals over 2,500.00\nbefore approval",
      "hello" }

AmountCondition ==
    Object([field |-> String("amount"), operator |-> String("gt"), value |-> Num(1000, 0)])

ConditionWith(key, value) == Object([AmountCondition.v EXCEPT ![key] = value])

RuleFromAI ==
    [rule_type |-> String("expense_amount_threshold"),
     conditions |-> Array(<<AmountCondition>>),
     action |-> String("flag"),
     reason |-> String("Flag expenses above $1,000"),
     confidence_score |-> Num(0, 95)]

\* the objects a response can hold: the rule asked for, and near misses
ObjectsFromAI ==
    { RuleFromAI,
      [RuleFromAI EXCEPT !.conditions = Array(<<>>)],
      [RuleFromAI EXCEPT !.action = String("")],
      [RuleFromAI EXCEPT !.confidence_score = Num(1, 0)],
      [RuleFromAI EXCEPT !.rule_type = String("something_else")],
      [RuleFromAI EXCEPT !.rule_type = Num(1, 0)],
      [RuleFromAI EXCEPT !.confidence_score = Num(1, 50)],
      [RuleFromAI EXCEPT !.confidence_score = String("high")],
      [RuleFromAI EXCEPT !.conditions = Array(<<AmountCondition, Null>>)],
      [RuleFromAI EXCEPT !.conditions = Array(<<Num(5, 0)>>)],
      [RuleFromAI EXCEPT !.conditions =
          Array(<<Object([field |-> String("amount"), operator |-> String("gt")])>>)],
      [RuleFromAI EXCEPT !.conditions = Object([field |-> String("amount")])],
      [k \in {"rule_type", "conditions", "reason", "confidence_score"} |-> RuleFromAI[k]],
      [RuleFromAI EXCEPT !.confidence_score = Num(0, 0)],
      [RuleFromAI EXCEPT !.confidence_score = Num(0, -10)],
      [RuleFromAI EXCEPT !.reason = Null],
      [RuleFromAI EXCEPT !.conditions = Array(<<ConditionWith("value", Num(0, 0))>>)],
      [RuleFromAI EXCEPT !.conditions = Array(<<ConditionWith("value", Boolean(FALSE))>>)],
      [RuleFromAI EXCEPT !.conditions = Array(<<ConditionWith("value", String(""))>>)],
      [RuleFromAI EXCEPT !.conditions = Array(<<ConditionWith("value", Null)>>)],
      [RuleFromAI EXCEPT !.conditions = Array(<<ConditionWith("field", String(""))>>)],
      [RuleFromAI EXCEPT !.conditions = Array(<<ConditionWith("field", Num(7, 0))>>)],
      [RuleFromAI EXCEPT !.conditions = Array(<<AmountCondition, ConditionWith("operator", Null)>>)],
      [RuleFromAI EXCEPT !.conditions = Array(<<String("amount > 1000")>>)],
      [note |-> String("cannot help")] }

Responses ==
    {<<JsonText(o)>> : o \in ObjectsFromAI}
    \cup { <<Prose, JsonText(RuleFromAI), Prose>>,
           <<JsonText(RuleFromAI), Prose, Remark>>,
           <<Remark, JsonText(RuleFromAI)>>,
           <<Prose>>,
           <<>>,
           <<Remark>>,
           <<CloseBrace, Prose, OpenBrace>>,
           <<OpenBrace, JsonText(RuleFromAI)>> }

\* how model.generateContent(prompt) and response.text() can end
Generations ==
    { [kind |-> "rejects", message |-> "fetch failed"],
      [kind |-> "textThrows", message |-> "Response was blocked"] }
    \cup {[kind |-> "text", text |-> r] : r \in Responses}

(***************************************************************************)
(* RuleParser.parseInstruction over GeminiService.parseInstruction.        *)
(*                                                                         *)
(* pc is where the current call stands: "idle" before any call, "awaiting" *)
(* while model.generateContent is pending, "done" once the call has        *)
(* returned; result is what it returned and calls what it invoked.         *)
(***************************************************************************)
\* Variant of IsEmptyInstruction: the instruction is not trimmed.
IsEmptyInstruction_untrimmed(instr) == Chars(instr) = <<>>

\* !instruction.trim()
IsEmptyInstruction(instr) == trim(Chars(instr)) = <<>>

\* Variant of StartParse: generateContent is called a second time.
StartParse_retries(instr, hasModel) ==
    IF ~hasModel
    THEN [pc |-> "done", completion |-> <<Returned(fallbackParsing(instr))>>,
          calls |-> <<"fallbackParsing">>]
    ELSE [pc |-> "awaiting", completion |-> <<>>,
          calls |-> <<"buildPrompt", "model.generateContent", "model.generateContent">>]

\* Variant of StartParse: generateContent is called whether or not a model
\* was made.
StartParse_unguarded(instr, hasModel) ==
    [pc |-> "awaiting", completion |-> <<>>,
     calls |-> <<"buildPrompt", "model.generateContent">>]

\* GeminiService.parseInstruction up to its await: without a model it
\* returns what fallbackParsing returns, with a model it builds the prompt
\* and calls generateContent.
StartParse(instr, hasModel) ==
    IF ~hasModel
    THEN [pc |-> "done", completion |-> <<Returned(fallbackParsing(instr))>>,
          calls |-> <<"fallbackParsing">>]
    ELSE [pc |-> "awaiting", completion |-> <<>>,
          calls |-> <<"buildPrompt", "model.generateContent">>]

\* GeminiService.parseInstruction once generateContent has settled
ResumeParse(instr, generation) ==
    IF generation.kind = "text"
    THEN Returned(parseGeminiResponse(generation.text))
    ELSE Returned(fallbackParsing(instr))

\* the try / catch of RuleParser.parseInstruction around the adapter
SettleParse(completion) ==
    IF completion.threw
    THEN Failure("Failed to parse instruction: " \o completion.message,
                 << "Check your internet connection",
                    "Verify your Gemini API key is configured correctly",
                    "Try simplifying your instruction" >>)
    ELSE completion.value

ParseInstruction(instr) ==
    /\ pc \in {"idle", "done"}
    /\ instruction' = <<instr>>
    /\ IF IsEmptyInstruction(instr)
       THEN /\ result' = << Failure("Instruction cannot be empty",
                                    <<"Please provide a clear audit instruction">>) >>
            /\ calls' = <<>>
            /\ pc' = "done"
       ELSE LET started == StartParse(instr, model)
            IN  /\ result' = [i \in DOMAIN started.completion |->
                                 SettleParse(started.completion[i])]
                /\ calls' = <<"geminiService.parseInstruction">> \o started.calls
                /\ pc' = started.pc
    /\ settled' = <<>>
    /\ UNCHANGED <<model, apiKey, storeVars, writerVars>>

GenerateSettles(generation) ==
    /\ pc = "awaiting"
    /\ result' = <<SettleParse(ResumeParse(instruction[1], generation))>>
    /\ calls' = Append(calls, IF generation.kind = "text"
                              THEN "parseGeminiResponse" ELSE "fallbackParsing")
    /\ pc' = "done"
    /\ settled' = <<generation>>
    /\ UNCHANGED <<model, apiKey, instruction, storeVars, writerVars>>

\* the credential the build was given: none, an empty one, a key
ApiKeys == {<<>>, <<"">>, <<"AIza-key">>}

\* Variant of initializeGemini: the model is made without looking at the key.
initializeGemini_anyKey(key, sdkThrows) == ~sdkThrows

\* GeminiService.initializeGemini: the value of this.model afterwards.
\* Without a key nothing is made; with one, the model is made unless the
\* SDK throws.
initializeGemini(key, sdkThrows) ==
    IF key = <<>> \/ key = <<"">> THEN FALSE ELSE ~sdkThrows

\* Variant of getStatus: available reports the credential.
getStatus_byKey(hasModel, key) ==
    [available |-> key # <<>> /\ key # <<"">>, apiKey |-> key # <<>> /\ key # <<"">>]

isGeminiAvailable(hasModel) == hasModel

getStatus(hasModel, key) ==
    [available |-> hasModel, apiKey |-> key # <<>> /\ key # <<"">>]

\* RuleParser.isGeminiAvailable and RuleParser.getParserStatus forward to
\* the service.
IsGeminiAvailable ==
    /\ call' = [name |-> "isGeminiAvailable"]
    /\ ret' = isGeminiAvailable(model)
    /\ UNCHANGED <<numina_audit_rules, numina_rule_versions, uuids, wrote, trip,
                   parseVars, writerVars>>

GetParserStatus ==
    /\ call' = [name |-> "getParserStatus"]
    /\ ret' = getStatus(model, apiKey)
    /\ UNCHANGED <<numina_audit_rules, numina_rule_versions, uuids, wrote, trip,
                   parseVars, writerVars>>

\* The service is constructed with or without a generative model.
InitParse ==
    /\ numina_audit_rules = NoItem
    /\ numina_rule_versions = NoItem
    /\ uuids = 0
    /\ call = [name |-> "none"]
    /\ ret = FALSE
    /\ wrote = {}
    /\ trip = NoTrip
    /\ pc = "idle"
    /\ \E key \in ApiKeys, sdkThrows \in BOOLEAN :
          /\ apiKey = key
          /\ model = initializeGemini(key, sdkThrows)
    /\ instruction = <<>>
    /\ result = <<>>
    /\ calls = <<>>
    /\ settled = <<>>
    /\ writers = [w \in Writers |-> Idle]
    /\ saved = {}

NextParse ==
    \/ \E instr \in Instructions : ParseInstruction(instr)
    \/ \E generation \in Generations : GenerateSettles(generation)

SpecParse == InitParse /\ [][NextParse]_vars

\* The generation capability eventually returns or fails: a pending
\* generateContent is eventually settled.
SpecParseFair ==
    /\ InitParse
    /\ [][NextParse]_vars
    /\ WF_vars(\E generation \in Generations : GenerateSettles(generation))

\* parsing, and the status queries between the steps
NextStatus ==
    \/ NextParse
    \/ IsGeminiAvailable
    \/ GetParserStatus

SpecStatus == InitParse /\ [][NextStatus]_vars

(***************************************************************************)
(* Properties of the Rule Store.                                           *)
(***************************************************************************)
\* The lineage signature: equal rule_type and structurally equal conditions.
SameLineage(a, b) == a.rule_type = b.rule_type /\ a.conditions = b.conditions

Stored == getAllRules(numina_audit_rules)

\* C1: a save that finds an active rule R of the ParsedRule's lineage (the
\* first one in store order, when an imported file holds several) appends
\* exactly one rule N with an id no stored rule has, N.version =
\* R.version + 1 and N active, and leaves R inactive; a save that finds
\* none appends an active rule of version 1.
C1_SaveVersions ==
    [][call'.name = "save" =>
        LET before == getAllRules(numina_audit_rules)
            after == getAllRules(numina_audit_rules')
            matching == {i \in DOMAIN before :
                            /\ before[i].is_active
                            /\ SameLineage(before[i], call'.parsedRule)}
            N == after[Len(after)]
        IN  /\ Len(after) = Len(before) + 1
            /\ \A i \in DOMAIN before : after[i].id = before[i].id
            /\ ret' = N
            /\ \A i \in DOMAIN before : before[i].id # N.id
            /\ N.is_active
            /\ IF matching # {}
               THEN /\ N.version = before[Min(matching)].version + 1
                    /\ ~after[Min(matching)].is_active
               ELSE N.version = 1]_vars

\* A save has just superseded a version: the rule returned has version 2 and
\* an inactive rule of its lineage is stored before it.
C1_Witness ==
    /\ call.name = "save"
    /\ ret.version = 2
    /\ \E i \in DOMAIN Stored :
          /\ SameLineage(Stored[i], call.parsedRule)
          /\ Stored[i].version = 1
          /\ ~Stored[i].is_active

\* C2: from the empty store, under save, deactivate, rollback and delete, no
\* two stored rules of one lineage are both active.
C2_OneActivePerLineage ==
    \A i, j \in DOMAIN Stored :
        (i < j /\ SameLineage(Stored[i], Stored[j]) /\ Stored[i].is_active)
            => ~Stored[j].is_active

\* A rollback has just re-activated version 1 of a lineage whose version 2
\* is stored, inactive.
C2_Witness ==
    /\ call.name = "rollback"
    /\ ret # <<>>
    /\ \E i, j \in DOMAIN Stored :
          /\ i < j
          /\ SameLineage(Stored[i], Stored[j])
          /\ Stored[i] = ret[1]
          /\ Stored[i].is_active
          /\ ~Stored[j].is_active

\* C3: from the empty store, under save, deactivate and rollback, a rule
\* saved later in a lineage has a greater version than every rule saved
\* earlier in it (the store keeps the rules in save order).
C3_VersionsIncrease ==
    \A i, j \in DOMAIN Stored :
        (i < j /\ SameLineage(Stored[i], Stored[j]))
            => Stored[i].version < Stored[j].version

\* C4: a rollback to a (rule_type, version) no stored rule has returns null,
\* writes nothing and leaves both stored items as they were.
C4_RollbackMiss ==
    [][(/\ call'.name = "rollback"
        /\ \A i \in DOMAIN Stored :
              ~(Stored[i].rule_type = call'.ruleType /\ Stored[i].version = call'.version))
        => /\ ret' = <<>>
           /\ wrote' = {}
           /\ numina_audit_rules' = numina_audit_rules
           /\ numina_rule_versions' = numina_rule_versions]_vars

\* A rollback has just missed while a rule of that rule_type is active.
C4_Witness ==
    /\ call.name = "rollback"
    /\ ret = <<>>
    /\ \E i \in DOMAIN Stored :
          Stored[i].rule_type = call.ruleType /\ Stored[i].is_active

\* C5: a rollback to a (rule_type, version) some stored rule has returns a
\* rule of that rule_type and version which is stored and active
\* afterwards, and no other rule of that rule_type is active afterwards.
C5_RollbackHit ==
    [][(/\ call'.name = "rollback"
        /\ \E i \in DOMAIN Stored :
              Stored[i].rule_type = call'.ruleType /\ Stored[i].version = call'.version)
        => LET after == getAllRules(numina_audit_rules')
           IN  /\ Len(ret') = 1
               /\ ret'[1].rule_type = call'.ruleType
               /\ ret'[1].version = call'.version
               /\ ret'[1].is_active
               /\ Len(after) = Len(Stored)
               /\ \E i \in DOMAIN after :
                     /\ after[i] = ret'[1]
                     /\ \A j \in DOMAIN after :
                           (after[j].rule_type = call'.ruleType /\ after[j].is_active)
                               => j = i]_vars

\* A rollback has just returned version 1 while a later version of the same
\* rule_type is stored, inactive.
C5_Witness ==
    /\ call.name = "rollback"
    /\ ret # <<>>
    /\ ret[1].version = 1
    /\ \E j \in DOMAIN Stored :
          /\ Stored[j].rule_type = call.ruleType
          /\ Stored[j].version = 2
          /\ ~Stored[j].is_active

\* An element that lacks a non-empty id, rule_type or action, lacks its
\* conditions or lacks a version.
LacksRequired(e) ==
    \/ \E key \in ValidatedKeys : key \notin DOMAIN e
    \/ e.id = ""
    \/ e.rule_type = ""
    \/ e.action = ""

\* ... or whose conditions are the empty sequence.
LacksNonEmpty(e) ==
    \/ LacksRequired(e)
    \/ e.conditions = <<>>

Rejected(text, Lacks(_)) ==
    \/ text.kind # "array"
    \/ \E i \in DOMAIN text.elems : Lacks(text.elems[i])

ImportLeavesStore ==
    /\ ret' = FALSE
    /\ wrote' = {}
    /\ numina_audit_rules' = numina_audit_rules
    /\ numina_rule_versions' = numina_rule_versions
    /\ getAllRules(numina_audit_rules') = getAllRules(numina_audit_rules)

\* C6 as stated: importRules returns false and writes nothing whenever the
\* payload does not decode, is no sequence, or holds an element lacking a
\* non-empty id, rule_type, conditions or action, or lacking a version.
C6_ImportRejectsNonEmpty ==
    [][(call'.name = "import" /\ Rejected(call'.rulesJson, LacksNonEmpty))
        => ImportLeavesStore]_vars

\* C6, amended: importRules returns false and writes nothing whenever the
\* payload does not decode, is no sequence, or holds an element lacking a
\* non-empty id, rule_type or action, lacking its conditions (an empty
\* conditions sequence is accepted) or lacking a version; every import
\* either leaves the store as it was or replaces it by the whole payload.
C6_ImportRejects ==
    [][call'.name = "import" =>
        /\ Rejected(call'.rulesJson, LacksRequired) => ImportLeavesStore
        /\ \/ ImportLeavesStore
           \/ /\ ret' = TRUE
              /\ getAllRules(numina_audit_rules') = call'.rulesJson.elems]_vars

\* An import has just been refused for its second element, the first one
\* being a full rule, and the rules saved before are still stored.
C6_Witness ==
    /\ call.name = "import"
    /\ ret = FALSE
    /\ call.rulesJson.kind = "array"
    /\ Len(call.rulesJson.elems) = 2
    /\ ~LacksRequired(call.rulesJson.elems[1])
    /\ "action" \notin DOMAIN call.rulesJson.elems[2]
    /\ Len(Stored) = 2
    /\ \A i \in DOMAIN Stored : Stored[i].id \notin {"x1", "x2"}

\* C7: exportRules, then clearAllRules, then importRules of the exported
\* text returns true and leaves getAllRules() as it was before the export.
C7_RoundTrip ==
    trip.stage = "imported" => (ret = TRUE /\ Stored = trip.all)

\* Rule counts taken directly from the stored sequence.
NumActive(rules, Test(_)) ==
    Cardinality({i \in DOMAIN rules : rules[i].is_active /\ Test(rules[i])})

CountOf(f, key) == IF key \in DOMAIN f THEN f[key] ELSE 0

RECURSIVE SumOf(_, _)
SumOf(f, keys) ==
    IF keys = {} THEN 0
    ELSE LET k == CHOOSE x \in keys : TRUE IN f[k] + SumOf(f, keys \ {k})

StatsAsClaimed(stats, rules) ==
    /\ stats.total = Len(rules)
    /\ stats.active = NumActive(rules, LAMBDA r : TRUE)
    /\ \A i \in DOMAIN rules :
          /\ CountOf(stats.byType, rules[i].rule_type)
                = NumActive(rules, LAMBDA r : r.rule_type = rules[i].rule_type)
          /\ CountOf(stats.byAction, rules[i].action)
                = NumActive(rules, LAMBDA r : r.action = rules[i].action)
    /\ SumOf(stats.byType, DOMAIN stats.byType) = stats.active
    /\ SumOf(stats.byAction, DOMAIN stats.byAction) = stats.active

\* C8: getRuleStats returns total = the number of stored rules, active = the
\* number of active ones, and byType and byAction counting the active rules
\* only (each summing to active); deactivating an active rule lowers active
\* and the byType count of its rule_type by one and leaves total unchanged.
C8_Stats ==
    [][/\ call'.name = "stats" => StatsAsClaimed(ret', Stored)
       /\ (/\ call'.name = "deactivate"
           /\ \E i \in DOMAIN Stored :
                 /\ Stored[i].id = call'.id
                 /\ Stored[i].is_active
                 /\ \A j \in 1..(i - 1) : Stored[j].id # call'.id)
          => LET was == getRuleStats(numina_audit_rules)
                 now == getRuleStats(numina_audit_rules')
                 type == (CHOOSE r \in {Stored[i] : i \in DOMAIN Stored} :
                              r.id = call'.id).rule_type
             IN  /\ StatsAsClaimed(now, getAllRules(numina_audit_rules'))
                 /\ now.active = was.active - 1
                 /\ CountOf(now.byType, type) = CountOf(was.byType, type) - 1
                 /\ now.total = was.total]_vars

\* getRuleStats has just counted three stored rules of two rule_types, one
\* of them inactive.
C8_Witness ==
    /\ call.name = "stats"
    /\ ret.total = 3
    /\ ret.active = 2
    /\ Cardinality({Stored[i].rule_type : i \in DOMAIN Stored}) = 2
    /\ \E i \in DOMAIN Stored :
          ~Stored[i].is_active /\ CountOf(ret.byType, Stored[i].rule_type) = 1

(***************************************************************************)
(* Properties of the parser.                                               *)
(***************************************************************************)
BlankInstructions == {"", "   ", " \t\n"}

\* C9: parseInstruction called with an empty or whitespace-only instruction
\* returns success:false with error exactly "Instruction cannot be empty"
\* and the single suggestion "Please provide a clear audit instruction",
\* and it invokes neither the adapter, nor the generation capability, nor
\* the heuristic extractor.
C9_EmptyInstruction ==
    (instruction # <<>> /\ instruction[1] \in BlankInstructions)
        => /\ pc = "done"
           /\ result = << [success |-> FALSE,
                           error |-> "Instruction cannot be empty",
                           suggestions |-> <<"Please provide a clear audit instruction">>] >>
           /\ calls = <<>>

\* a whitespace-only instruction has been parsed by a service that has a
\* generative model to call
C9_Witness ==
    /\ model
    /\ pc = "done"
    /\ instruction = <<"   ">>
    /\ result # <<>>

IsConversionResult(r) ==
    \/ DOMAIN r = {"success", "rule"} /\ r.success = TRUE
    \/ DOMAIN r = {"success", "error", "suggestions"} /\ r.success = FALSE

\* C10: for every non-empty instruction and every behaviour of the
\* generation capability (absent, raising an error, returning any text) the
\* call completes with a ConversionResult, {success:true, rule} or
\* {success:false, error, suggestions}: without a model it has returned at
\* once, with a model it waits for the generation only, and when that
\* settles it returns.  No exception reaches the caller.
C10_AlwaysConversionResult ==
    /\ []((instruction # <<>> /\ instruction[1] \notin BlankInstructions)
            => \/ pc = "awaiting" /\ model /\ result = <<>>
               \/ pc = "done" /\ Len(result) = 1 /\ IsConversionResult(result[1]))
    /\ [][pc = "awaiting" => pc' = "done"]_vars

\* the response held an object with a null condition, whose reading throws
C10_Witness ==
    /\ pc = "done"
    /\ instruction = <<"hello">>
    /\ calls[Len(calls)] = "parseGeminiResponse"
    /\ result[1].success = FALSE
    /\ result[1].error
         = "Failed to parse AI response: Cannot read properties of null (reading 'field')"

\* the generation capability failed: the call raised, or the text it
\* returned holds no JSON object, holds one that does not parse, or holds an
\* object that validation does not accept
AIFailed(generation) ==
    \/ generation.kind # "text"
    \/ match(generation.text) = <<>>
    \/ JSON_parse_span(match(generation.text)[1]).threw
    \/ validateParsedRule(JSON_parse_span(match(generation.text)[1]).value)
          # Returned(TRUE)

\* C11: with the adapter available, after every kind of AI failure the
\* heuristic extractor has been run on the instruction and the result
\* returned is the heuristic's.
C11_AIFailureFallsBack ==
    (pc = "done" /\ settled # <<>> /\ AIFailed(settled[1]))
        => /\ calls[Len(calls)] = "fallbackParsing"
           /\ result = <<fallbackParsing(instruction[1])>>

\* C12: a service constructed without a generative model never calls
\* generateContent and never waits for it; every non-empty instruction is
\* answered, within the call, by what fallbackParsing returns for it.
C12_UnavailableNeverGenerates ==
    ~model
        => /\ pc # "awaiting"
           /\ settled = <<>>
           /\ \A i \in DOMAIN calls : calls[i] # "model.generateContent"
           /\ (instruction # <<>> /\ instruction[1] \notin BlankInstructions)
                 => /\ calls = <<"geminiService.parseInstruction", "fallbackParsing">>
                    /\ result = <<fallbackParsing(instruction[1])>>

\* without a model, an instruction has been read by the heuristic
C12_Witness ==
    /\ ~model
    /\ pc = "done"
    /\ instruction = <<"check after 10 pm">>
    /\ result # <<>>
    /\ result[1].success

\* C13: without a generative model, parseInstruction("Flag any expense above
\* $1,000") returns success:true with rule_type "expense_amount_threshold",
\* action "flag", the one condition {field:"amount", operator:"gt",
\* value:1000} and confidence_score 0.6.
C13_FlagExpenseAbove1000 ==
    (~model /\ pc = "done" /\ instruction = <<"Flag any expense above $1,000">>)
        => /\ DOMAIN result[1] = {"success", "rule"}
           /\ result[1].success
           /\ result[1].rule.rule_type = "expense_amount_threshold"
           /\ result[1].rule.action = "flag"
           /\ result[1].rule.conditions
                 = << [field |-> "amount", operator |-> "gt", value |-> Number(1000, 0)] >>
           /\ result[1].rule.confidence_score = Number(0, 60)

\* the five patterns, in the order of the claim
PatternOrder ==
    << "expense_amount_threshold", "vendor_frequency", "category_amount_threshold",
       "duplicate_detection", "time_based" >>

MatchesPattern(s, ruleType) ==
    CASE ruleType = "expense_amount_threshold" ->
            \/ ThenLater(s, "expense", "amount")
            \/ ThenLater(s, "amount", "above")
            \/ ThenLater(s, "cost", "over")
      [] ruleType = "vendor_frequency" ->
            \/ ThenLater(s, "vendor", "frequency")
            \/ ThenLater(s, "appears", "times")
            \/ ThenLater(s, "vendor", "day")
      [] ruleType = "category_amount_threshold" ->
            \/ ThenLater(s, "category", "amount")
            \/ ThenLater(s, "tagged", "over")
            \/ ThenLater(s, "categorized", "above")
      [] ruleType = "duplicate_detection" ->
            \/ includes(s, "duplicate")
            \/ ThenLater(s, "same", "transaction")
            \/ includes(s, "identical")
      [] ruleType = "time_based" ->
            \E word \in {"time", "after", "before", "am", "pm"} : includes(s, word)

HeuristicRan == pc = "done" /\ calls # <<>> /\ calls[Len(calls)] = "fallbackParsing"

\* C14: whenever the heuristic has produced the result, the rule type is
\* that of the earliest pattern, in the order expense_amount_threshold,
\* vendor_frequency, category_amount_threshold, duplicate_detection,
\* time_based, that the lowercased instruction matches; when it matches
\* none the result is success:false and carries no rule.
C14_FirstPatternWins ==
    HeuristicRan
        => LET s == trim(toLowerCase(Chars(instruction[1])))
               matching == {k \in DOMAIN PatternOrder : MatchesPattern(s, PatternOrder[k])}
           IN  IF matching = {}
               THEN ~result[1].success /\ "rule" \notin DOMAIN result[1]
               ELSE /\ result[1].success
                    /\ result[1].rule.rule_type = PatternOrder[Min(matching)]

\* an instruction matching a vendor-frequency and a time pattern
C14_Witness ==
    /\ HeuristicRan
    /\ instruction = <<"Block a vendor that appears 3 times in a day">>
    /\ MatchesPattern(trim(toLowerCase(Chars(instruction[1]))), "vendor_frequency")
    /\ MatchesPattern(trim(toLowerCase(Chars(instruction[1]))), "time_based")
    /\ result[1].rule.rule_type = "vendor_frequency"

\* a value that is neither absent nor empty: not "", null, 0 or false
NonEmpty(object, key) ==
    /\ key \in DOMAIN object
    /\ object[key] \notin {String(""), Null, Num(0, 0), Boolean(FALSE)}

WellFormedRule(rule) ==
    /\ {"rule_type", "conditions", "action", "reason", "confidence_score"} \subseteq DOMAIN rule
    /\ rule.rule_type.t = "string"
    /\ rule.action.t = "string"
    /\ rule.reason.t = "string"
    /\ rule.conditions.t = "array"
    /\ rule.confidence_score.t = "number"
    /\ 100 * rule.confidence_score.v.whole + rule.confidence_score.v.cents \in 0..100
    /\ \A i \in DOMAIN rule.conditions.v :
          LET condition == rule.conditions.v[i]
          IN  /\ condition.t = "object"
              /\ NonEmpty(condition.v, "field")
              /\ NonEmpty(condition.v, "operator")
              /\ "value" \in DOMAIN condition.v

FromAI == pc = "done" /\ settled # <<>> /\ settled[1].kind = "text"

\* C15: a success that comes from the AI path carries the object of the
\* response, and that object has string rule_type, action and reason, a
\* sequence of conditions, a confidence_score that is a number in [0,1],
\* and in every condition a non-empty field, a non-empty operator and a
\* value (which may be 0, false, "" or null); a response whose object breaks
\* any of these is not returned as a success.
C15_AISuccessIsValid ==
    (FromAI /\ result[1].success)
        => /\ \E i \in DOMAIN settled[1].text :
                 /\ settled[1].text[i].kind = "json"
                 /\ settled[1].text[i].object = result[1].rule
           /\ WellFormedRule(result[1].rule)

\* a rule whose condition has the value 0 was returned as a success
C15_Witness ==
    /\ FromAI
    /\ result[1].success
    /\ result[1].rule.conditions.v # <<>>
    /\ result[1].rule.conditions.v[1].v.value = Num(0, 0)

(***************************************************************************)
(* Properties of the Rule Store: the log and the frame of each operation.  *)
(***************************************************************************)
History == getVersionHistory(numina_rule_versions)

\* C16: a save appends to the end of the version-history log the one entry
\* {rule_id, rule_type, version, timestamp, created_by, action:"created"}
\* of the rule it returns; clear empties the log; deactivate, rollback,
\* delete, import and export leave every entry as it was.
C16_HistoryAppendOnly ==
    [][CASE call'.name = "save" ->
               History' = Append(History,
                                 [rule_id |-> ret'.id, rule_type |-> ret'.rule_type,
                                  version |-> ret'.version, timestamp |-> ret'.created_at,
                                  created_by |-> ret'.created_by, action |-> "created"])
         [] call'.name = "clear" -> History' = <<>>
         [] OTHER -> History' = History]_vars

\* a second save has been logged although the rule of the first was deleted
C16_Witness ==
    /\ call.name = "save"
    /\ Len(History) = 2
    /\ Len(Stored) = 1
    /\ History[2].rule_id = ret.id
    /\ History[1].rule_id # ret.id

\* C17: after a save the stored rules are the rules stored before, in the
\* same order, followed by the rule returned; at most one of the earlier
\* rules differs from what it was, and it differs in is_active alone, which
\* went from true to false.
C17_SaveKeepsRules ==
    [][call'.name = "save" =>
        /\ Len(Stored') = Len(Stored) + 1
        /\ Stored'[Len(Stored')] = ret'
        /\ \A i \in DOMAIN Stored :
              \/ Stored'[i] = Stored[i]
              \/ /\ Stored[i].is_active
                 /\ Stored'[i] = [Stored[i] EXCEPT !.is_active = FALSE]
        /\ Cardinality({i \in DOMAIN Stored : Stored'[i] # Stored[i]}) <= 1]_vars

\* a save superseded one of two active rules of a lineage
C17_Witness ==
    /\ call.name = "save"
    /\ ret.version = 2
    /\ Len(Stored) = 3
    /\ ~Stored[1].is_active
    /\ Stored[2].is_active
    /\ SameLineage(Stored[1], Stored[2])

\* C18: delete(id) of a stored id returns true and leaves the stored rules
\* without the rule of that id, the others unchanged and in their order;
\* delete of an id that is not stored returns false and writes nothing.  No
\* rule becomes active by a delete.
C18_DeleteFrame ==
    [][call'.name = "delete" =>
        LET hits == {i \in DOMAIN Stored : Stored[i].id = call'.id}
        IN  IF hits = {}
            THEN /\ ret' = FALSE
                 /\ wrote' = {}
                 /\ numina_audit_rules' = numina_audit_rules
                 /\ numina_rule_versions' = numina_rule_versions
            ELSE /\ ret' = TRUE
                 /\ Stored' = SubSeq(Stored, 1, Min(hits) - 1)
                                 \o SubSeq(Stored, Min(hits) + 1, Len(Stored))
                 /\ \A j \in DOMAIN Stored' : Stored'[j].id # call'.id
                 /\ numina_rule_versions' = numina_rule_versions]_vars

\* the active version 2 was deleted; version 1 stays, inactive
C18_Witness ==
    /\ call.name = "delete"
    /\ ret = TRUE
    /\ Len(Stored) = 1
    /\ Stored[1].version = 1
    /\ ~Stored[1].is_active

\* C19: deactivate(id) of a stored id returns true and leaves every rule as
\* it was except that the rule of that id is inactive; deactivate of an id
\* that is not stored returns false and writes nothing.  No rule becomes
\* active by a deactivate.
C19_DeactivateFrame ==
    [][call'.name = "deactivate" =>
        LET hits == {i \in DOMAIN Stored : Stored[i].id = call'.id}
        IN  IF hits = {}
            THEN /\ ret' = FALSE
                 /\ wrote' = {}
                 /\ numina_audit_rules' = numina_audit_rules
                 /\ numina_rule_versions' = numina_rule_versions
            ELSE /\ ret' = TRUE
                 /\ Stored' = [i \in DOMAIN Stored |->
                                  IF i = Min(hits)
                                  THEN [Stored[i] EXCEPT !.is_active = FALSE]
                                  ELSE Stored[i]]
                 /\ numina_rule_versions' = numina_rule_versions]_vars

\* the only active rule of a lineage was deactivated: the lineage has two
\* versions and none is active
C19_Witness ==
    /\ call.name = "deactivate"
    /\ ret = TRUE
    /\ Len(Stored) = 2
    /\ SameLineage(Stored[1], Stored[2])
    /\ ~Stored[1].is_active
    /\ ~Stored[2].is_active

(***************************************************************************)
(* Properties of the Rule Store under several writers.                     *)
(***************************************************************************)
IsStored(rule) == \E i \in DOMAIN Stored : Stored[i].id = rule.id

\* C20: as long as all completed saves were made by one writer, every rule
\* a save returned is stored and no lineage has two active rules; with two
\* writers, each reading the rules and later writing them back, a state is
\* reached in which a rule returned by a completed save is not stored.
C20_SingleWriterKeepsSaves ==
    (\A a, b \in saved : a.writer = b.writer)
        => /\ \A a \in saved : IsStored(a.rule)
           /\ \A i, j \in DOMAIN Stored :
                 (i < j /\ SameLineage(Stored[i], Stored[j]) /\ Stored[i].is_active)
                     => ~Stored[j].is_active

\* both writers have completed a save and the rule one of them returned is
\* not among the stored rules
C20_Witness ==
    /\ \A w \in Writers : writers[w] = Idle
    /\ \E a, b \in saved : a.writer # b.writer
    /\ \E a \in saved : ~IsStored(a.rule)

(***************************************************************************)
(* Properties of the adapter's status.                                     *)
(***************************************************************************)
\* C21: whether the service has a generative model is settled by its
\* construction and no parse changes it; isGeminiAvailable() and
\* getParserStatus().available both return it; and a service that has a
\* model was constructed with a non-empty credential.
C21_Availability ==
    /\ [](model => (apiKey # <<>> /\ apiKey[1] # ""))
    /\ [][model' = model /\ apiKey' = apiKey]_vars
    /\ [](call.name = "isGeminiAvailable" => ret = model)
    /\ [](call.name = "getParserStatus" => ret.available = model)

\* after a generation call failed, the status still reports the adapter
\* available
C21_Witness ==
    /\ call.name = "getParserStatus"
    /\ ret.available
    /\ pc = "done"
    /\ settled # <<>>
    /\ settled[1].kind = "rejects"

(***************************************************************************)
(* Properties of the Rule Store: what fixes a rule.                        *)
(***************************************************************************)
\* the fields of a rule other than is_active
FixedFields(rule) == [k \in DOMAIN rule \ {"is_active"} |-> rule[k]]

\* C22: under save, deactivate, rollback and delete every rule that is
\* stored afterwards either was stored before with the same id, version,
\* rule_type, conditions, action and created_at (every field but
\* is_active), or is the rule a save has just created; and a rule created
\* with a version greater than 1 was created by a save that found an
\* active rule of its lineage, one version below.
C22_VersionFixedAtSave ==
    [][call'.name \in {"save", "deactivate", "rollback", "delete"} =>
        \A j \in DOMAIN Stored' :
            \/ \E i \in DOMAIN Stored : FixedFields(Stored[i]) = FixedFields(Stored'[j])
            \/ /\ call'.name = "save"
               /\ Stored'[j] = ret'
               /\ Stored'[j].version > 1
                     => \E i \in DOMAIN Stored :
                           /\ Stored[i].is_active
                           /\ SameLineage(Stored[i], call'.parsedRule)
                           /\ Stored'[j].version = Stored[i].version + 1]_vars

\* version 1 of a lineage was deleted; version 2 stays, as version 2
C22_Witness ==
    /\ call.name = "delete"
    /\ ret = TRUE
    /\ Len(Stored) = 1
    /\ Stored[1].version = 2

\* C26: a rollback whose target is already active returns that rule and
\* leaves the stored rules as they were, those of the same rule_type
\* included.
C26_RollbackToActive ==
    [][call'.name = "rollback" =>
        LET hits == {i \in DOMAIN Stored :
                        /\ Stored[i].rule_type = call'.ruleType
                        /\ Stored[i].version = call'.version}
        IN  (hits # {} /\ Stored[Min(hits)].is_active)
                => /\ ret' = <<Stored[Min(hits)]>>
                   /\ Stored' = Stored]_vars

\* C28: the rule a save returns when it finds an active rule R of the
\* lineage has R's rule_type, conditions, action, reason and is_active (R
\* was active) and the fields R has, whatever action and reason the
\* ParsedRule carries; its id, version, created_at, created_by,
\* confidence_score and original_instruction are those of this save.
C28_NewVersionIsClone ==
    [][call'.name = "save" =>
        LET matching == {i \in DOMAIN Stored :
                            /\ Stored[i].is_active
                            /\ SameLineage(Stored[i], call'.parsedRule)}
        IN  matching # {}
              => LET R == Stored[Min(matching)]
                     N == ret'
                 IN  /\ DOMAIN N = DOMAIN R
                     /\ N.rule_type = R.rule_type
                     /\ N.conditions = R.conditions
                     /\ N.action = R.action
                     /\ N.reason = R.reason
                     /\ N.is_active = R.is_active
                     /\ N.id # R.id
                     /\ N.version = R.version + 1
                     /\ N.created_at = call'.prov.now
                     /\ N.created_by = call'.prov.createdBy
                     /\ N.confidence_score = call'.parsedRule.confidence_score
                     /\ N.original_instruction = call'.prov.originalInstruction]_vars

\* a ParsedRule with another action and reason was saved into a lineage;
\* the new version kept the lineage's action and reason
C28_Witness ==
    /\ call.name = "save"
    /\ ret.version = 2
    /\ ret.action # call.parsedRule.action
    /\ ret.reason # call.parsedRule.reason
    /\ ret.action = Stored[1].action
    /\ ret.confidence_score = call.parsedRule.confidence_score

(***************************************************************************)
(* Properties of the parser: what the two paths return.                    *)
(***************************************************************************)
\* the pieces i..j of a text form a balanced {...}: an object's text or a
\* braced remark, or a "{" closed by the "}" that matches it
IsBalanced(text, i, j) ==
    LET depth(m) == Cardinality({k \in i..m : text[k].kind = "open"})
                       - Cardinality({k \in i..m : text[k].kind = "close"})
    IN  \/ i = j /\ text[i].kind \in {"json", "remark"}
        \/ /\ i < j
           /\ text[i].kind = "open"
           /\ text[j].kind = "close"
           /\ depth(j) = 0
           /\ \A m \in i..(j - 1) : depth(m) > 0

BalancedStarts(text) ==
    {i \in DOMAIN text : \E j \in i..Len(text) : IsBalanced(text, i, j)}

FirstBalanced(text) ==
    LET i == Min(BalancedStarts(text))
    IN  SubSeq(text, i, CHOOSE j \in i..Len(text) : IsBalanced(text, i, j))

\* C23: the result of the AI path is the result of handling the first
\* balanced top-level {...} of the response alone, whatever follows it; a
\* response without one gives the error "No JSON found in response".
C23_FirstBalancedObject ==
    FromAI
        => IF BalancedStarts(settled[1].text) = {}
           THEN /\ ~result[1].success
                /\ result[1].error = "Failed to parse AI response: No JSON found in response"
           ELSE result = <<parseGeminiResponse(FirstBalanced(settled[1].text))>>

RECURSIVE Spaced(_)
Spaced(str) ==
    IF Len(str) = 0 THEN ""
    ELSE (IF SubSeq(str, 1, 1) = "_" THEN " " ELSE SubSeq(str, 1, 1))
            \o Spaced(SubSeq(str, 2, Len(str)))

HeuristicSucceeded == HeuristicRan /\ result[1].success

\* C24: the reason of a successful heuristic result is the capitalized
\* action, " based on ", and the rule type with every underscore replaced
\* by a space; it holds no underscore.
C24_ReasonWithoutUnderscores ==
    HeuristicSucceeded
        => LET rule == result[1].rule
           IN  /\ rule.reason = Capitalized(rule.action) \o " based on " \o Spaced(rule.rule_type)
               /\ \A i \in 1..Len(rule.reason) : SubSeq(rule.reason, i, i) # "_"

\* the number the first numeric token of s denotes: digits, groups of a
\* comma and three digits, and the digits after a decimal point
FirstNumber(s) ==
    LET start == Min({i \in DOMAIN s : IsDigit(s[i])})
        wholeEnd == GroupsEnd(s, DigitsEnd(s, start))
        hasFraction == wholeEnd + 2 <= Len(s) /\ s[wholeEnd + 1] = "." /\ IsDigit(s[wholeEnd + 2])
        fractionEnd == IF hasFraction THEN DigitsEnd(s, wholeEnd + 2) ELSE wholeEnd
        tenths == IF hasFraction THEN DigitValue(s[wholeEnd + 2]) ELSE 0
        hundredths == IF fractionEnd >= wholeEnd + 3 THEN DigitValue(s[wholeEnd + 3]) ELSE 0
    IN  Number(Decimal(SubSeq(s, start, wholeEnd)), 10 * tenths + hundredths)

\* C25: a successful heuristic result has confidence_score 0.6 and either
\* no condition, when the instruction holds no digit, or the one condition
\* {field:"amount", operator:"gt", value:n}, n being the number the first
\* numeric token of the instruction denotes.
C25_OneAmountCondition ==
    HeuristicSucceeded
        => LET rule == result[1].rule
               s == trim(toLowerCase(Chars(instruction[1])))
           IN  /\ rule.confidence_score = Number(0, 60)
               /\ IF \A i \in DOMAIN s : ~IsDigit(s[i])
                  THEN rule.conditions = <<>>
                  ELSE rule.conditions
                          = << [field |-> "amount", operator |-> "gt",
                                value |-> FirstNumber(s)] >>

PermittedRuleTypes ==
    {"expense_amount_threshold", "vendor_frequency", "category_amount_threshold",
     "duplicate_detection", "time_based", "compliance_check"}

PermittedActions == {"flag", "review", "reject", "approve"}

PermittedOperators == {"gt", "lt", "eq", "ne", "contains", "not_contains", "in", "not_in"}

\* C27: a rule returned with success:true, by the heuristic or by the AI
\* path, has one of the six rule types, one of the four actions, one of
\* the eight operators in every condition, and a non-empty reason.
C27_RuleWithinEnums ==
    (pc = "done" /\ result # <<>> /\ result[1].success)
        => LET rule == result[1].rule
           IN  IF HeuristicRan
               THEN /\ rule.rule_type \in PermittedRuleTypes
                    /\ rule.action \in PermittedActions
                    /\ \A i \in DOMAIN rule.conditions :
                          rule.conditions[i].operator \in PermittedOperators
                    /\ rule.reason # ""
               ELSE /\ rule.rule_type.v \in PermittedRuleTypes
                    /\ rule.action.v \in PermittedActions
                    /\ \A i \in DOMAIN rule.conditions.v :
                          /\ rule.conditions.v[i].v.operator.t = "string"
                          /\ rule.conditions.v[i].v.operator.v \in PermittedOperators
                    /\ rule.reason.v # ""

GenerateCalls == Cardinality({i \in DOMAIN calls : calls[i] = "model.generateContent"})

\* C29: if the generation capability eventually returns or fails, a parse
\* that waits eventually completes with a ConversionResult; a parse waits
\* only on the generateContent call it has just made, makes at most one
\* such call, and leaves the wait only when that call settles (there is no
\* timeout).
C29_ParseCompletes ==
    /\ (pc = "awaiting") ~> (pc = "done" /\ Len(result) = 1 /\ IsConversionResult(result[1]))
    /\ [](GenerateCalls <= 1)
    /\ [](pc = "awaiting" => (calls[Len(calls)] = "model.generateContent" /\ settled = <<>>))
    /\ [][(pc = "awaiting" /\ pc' # "awaiting") => (pc' = "done" /\ settled' # <<>>)]_vars

\* a parse that waited has completed after its one generation call failed
C29_Witness ==
    /\ pc = "done"
    /\ GenerateCalls = 1
    /\ settled # <<>>
    /\ settled[1].kind = "textThrows"
    /\ Len(result) = 1

====
